---- MODULE Spec2Model ----
(***************************************************************************)
(* overalls: the walk over the project tree, the per-directory workers     *)
(* (processDIR) and the merge of their cover profiles (testFiles).         *)
(*                                                                         *)
(* File contents are sequences of one-character strings, so that the       *)
(* regular expression modeRegex is applied to bytes as the code applies    *)
(* it.  Paths are sequences of path segments ("/go/src/p/a" is             *)
(* <<"go","src","p","a">>); the project-relative path is turned into the   *)
(* string the ignore map is keyed by.                                      *)
(***************************************************************************)
EXTENDS Integers, Sequences, FiniteSets, Bags, TLC

\* ---------------------------------------------------------------- bounds
\* most directories of one tree that hold *_test.go files
MaxCand == 2
\* most data lines of one per-directory cover profile
MaxLines == 2
MaxOut == 3

\* ------------------------------------------------------------- characters
NL == "\n"

Lower ==
    {"a","b","c","d","e","f","g","h","i","j","k","l","m",
     "n","o","p","q","r","s","t","u","v","w","x","y","z"}

\* the literal prefix "mode: " of modeRegex and of the header testFiles writes
ModePrefix == <<"m","o","d","e",":"," ">>

\* the cover modes parseFlags accepts: set, count, atomic
Modes ==
    { <<"s","e","t">>, <<"c","o","u","n","t">>, <<"a","t","o","m","i","c">> }

\* "mode: " + coverFlag + "\n"
Header(mode) == ModePrefix \o mode \o <<NL>>

\* -------------------------------------------------------------- modeRegex
\* length of the longest run of [a-z] in s that starts at index j
RECURSIVE LetterRun(_, _)
LetterRun(s, j) ==
    IF j <= Len(s) /\ s[j] \in Lower THEN 1 + LetterRun(s, j + 1) ELSE 0

\* the pattern with its final "\n" left out
ModeMatchNoNewline(s, i) ==
    IF i + 5 <= Len(s) /\ SubSeq(s, i, i + 5) = ModePrefix
    THEN LET k == LetterRun(s, i + 6)
         IN  IF k >= 1 THEN 6 + k ELSE 0
    ELSE 0

\* length of the match of "mode: [a-z]+\n" at index i of s, 0 when there is
\* none ([a-z]+ is greedy and "\n" is no letter, so the run is the only try)
ModeMatch(s, i) ==
    IF i + 5 <= Len(s) /\ SubSeq(s, i, i + 5) = ModePrefix
    THEN LET k == LetterRun(s, i + 6)
         IN  IF k >= 1 /\ i + 6 + k <= Len(s) /\ s[i + 6 + k] = NL
             THEN 6 + k + 1
             ELSE 0
    ELSE 0

\* modeRegex.ReplaceAllString(s, ""): leftmost non-overlapping matches go
RECURSIVE ReplaceFrom(_, _)
ReplaceFrom(s, i) ==
    IF i > Len(s) THEN << >>
    ELSE LET m == ModeMatch(s, i)
         IN  IF m > 0 THEN ReplaceFrom(s, i + m)
             ELSE <<s[i]>> \o ReplaceFrom(s, i + 1)

ReplaceAllString(s) == ReplaceFrom(s, 1)

\* only the first match is removed
RECURSIVE ReplaceFirstFrom(_, _)
ReplaceFirstFrom(s, i) ==
    IF i > Len(s) THEN << >>
    ELSE LET m == ModeMatch(s, i)
         IN  IF m > 0 THEN SubSeq(s, i + m, Len(s))
             ELSE <<s[i]>> \o ReplaceFirstFrom(s, i + 1)

FinalReportFirstOnly(buff, mode) == Header(mode) \o ReplaceFirstFrom(buff, 1)

\* final := "mode: " + coverFlag + "\n" + modeRegex.ReplaceAllString(buff, "")
FinalReport(buff, mode) == Header(mode) \o ReplaceAllString(buff)

\* ------------------------------------------------------ per-directory files
Chars1 == <<"a",".","g","o",":","1",".","2",",","3",".","4"," ","1"," ","1">>
Chars2 == <<"m","o","d","e",":"," ","b",".","g","o",":","5",".","6",",","7",".","8"," ","2"," ","0">>

\* two data lines as `go test -coverprofile` writes them,
\* <file>:<start>,<end> <statements> <count>; the second one's file is
\* named "mode: b.go"
DataLine(k) == (IF k % 2 = 1 THEN Chars1 ELSE Chars2) \o <<NL>>

RECURSIVE DataLines(_)
DataLines(n) == IF n = 0 THEN << >> ELSE DataLines(n - 1) \o DataLine(n)

\* the mode `go test` declared in a profile of n data lines
ModeOf(n) ==
    IF n % 3 = 0 THEN <<"s","e","t">>
    ELSE IF n % 3 = 1 THEN <<"c","o","u","n","t">>
    ELSE <<"a","t","o","m","i","c">>

\* what profile.coverprofile of a directory can hold after `go test` ran
\* there: a mode line and up to MaxLines data lines
ArtifactPool == { Header(ModeOf(n)) \o DataLines(n) : n \in 0..MaxLines }

\* ------------------------------------------------------------------ paths
\* projectPath = srcPath + projectFlag + SEPARATOR
projectPath == <<"go", "src", "p">>

\* the filesystem root "/" (absolute paths are segments from there)
FsRoot == << >>

\* the directories below the project (their project-relative segments); the
\* directory names in the order readDirNames returns them (sorted)
Names == <<"a", "c", "vendor">>
Tree == { << >>, <<"a">>, <<"a", "vendor">>, <<"vendor">>, <<"vendor", "c">> }

\* filepath.Join(path, name)
Join(path, name) == Append(path, name)

IsPrefixAt(old, s, i) ==
    /\ i + Len(old) - 1 <= Len(s)
    /\ SubSeq(s, i, i + Len(old) - 1) = old

\* strings.Replace(s, old, "", 1): the first occurrence of old is cut out
StringsReplace(s, old) ==
    IF \E i \in 1..Len(s) : IsPrefixAt(old, s, i)
    THEN LET i == CHOOSE j \in 1..Len(s) :
                      /\ IsPrefixAt(old, s, j)
                      /\ \A h \in 1..(j - 1) : ~IsPrefixAt(old, s, h)
         IN  SubSeq(s, 1, i - 1) \o SubSeq(s, i + Len(old), Len(s))
    ELSE s

\* the segments of a path written as the string the code handles
RECURSIVE PathString(_)
PathString(segs) ==
    IF Len(segs) = 0 THEN ""
    ELSE IF Len(segs) = 1 THEN segs[1]
    ELSE segs[1] \o "/" \o PathString(Tail(segs))

\* rel := strings.Replace(path, projectPath, "", 1)
Rel(path) == StringsReplace(path, projectPath)

\* the values of -ignore tried, each as strings.Split(ignoreFlag, ",")
\* returns it: the default ".git,vendor", the empty flag, "a", "a/vendor"
IgnoreFlags == { <<".git", "vendor">>, <<"">>, <<"a">>, <<"a/vendor">> }

\* parseFlags: ignores[v] = emptyStruct for every item of the split flag
ParseIgnores(arr) == { arr[i] : i \in 1..Len(arr) }

\* -------------------------------------------------------------------- state
VARIABLES
    coverFlag,  \* -covermode, one of Modes
    ignores,    \* the ignore map's keys
    testDirs,   \* the absolute directories that hold a *_test.go file
    fault,      \* the one filesystem fault of the run, or NoFault
    outLines,   \* how many lines each external command writes before it exits
    todo,       \* filepath.Walk: the entries still to visit, next first
    visited,    \* the paths the walker callback was called with, in order
    walkErrs,   \* the paths the callback was called with and err # nil
    pruned,     \* the paths the callback returned filepath.SkipDir for
    workers,    \* the processDIR goroutines, in dispatch order
    execs,      \* the bag of directories an external `go test` started for
    wg,         \* the WaitGroup counter
    closer,     \* the goroutine of wg.Wait(); close(out)
    closed,     \* out is closed
    buff,       \* testFiles' buffer
    received,   \* how many artifacts the range loop took from out
    order,      \* the workers whose artifact the loop took, first first
    mainpc,     \* main line: "walk", "drain", "write", "done"
    report,     \* the content of overalls.coverprofile
    writes,     \* how many times overalls.coverprofile was written
    exit        \* "running", or how the process ended: "ok", "fatal", "panic"

vars ==
    << coverFlag, ignores, testDirs, fault, outLines, todo, visited, walkErrs, pruned,
       workers, execs, wg, closer, closed, buff, received, order, mainpc,
       report, writes, exit >>

config == << coverFlag, ignores, testDirs, fault, outLines >>
walk == << todo, visited, walkErrs, pruned >>
merge == << buff, received, order, report, writes >>

NoFault == [path |-> <<"-">>, kind |-> "none"]

\* a fault strikes one of two directories and is one of: the directory cannot be listed (readDirNames fails and
\* the callback gets the error), the entry cannot be lstat-ed (the callback
\* gets a nil FileInfo and the error), the directory's name is a malformed
\* glob pattern (filepath.Glob returns ErrBadPattern)
FaultDirs == { <<"a">>, <<"vendor">> }

Faults ==
    {NoFault}
    \cup { [path |-> projectPath \o d, kind |-> k] :
              d \in FaultDirs, k \in {"readdir", "lstat", "pattern"} }

FaultAt(path) == IF fault.path = path THEN fault.kind ELSE "none"

AbsDirs == { projectPath \o d : d \in Tree } \cup {FsRoot}

\* the sub-directories of path, as Walk visits them
Children(path) ==
    LET kids == SelectSeq(Names, LAMBDA n : Rel(Join(path, n)) \in Tree)
    IN  [i \in 1..Len(kids) |-> Join(path, kids[i])]

\* the directory the pattern rel + SEPARATOR + "*_test.go" lists: relative
\* to the working directory (projectPath) unless rel is empty, when the
\* pattern starts with SEPARATOR
GlobDir(rel) == IF rel = << >> THEN FsRoot ELSE projectPath \o rel

\* filepath.Glob(rel + SEPARATOR + "*_test.go"): "error" for a malformed
\* pattern, else whether files matched (a directory that cannot be listed
\* matches nothing)
Glob(path, rel) ==
    IF FaultAt(path) = "pattern" THEN "error"
    ELSE IF GlobDir(rel) \in testDirs /\ FaultAt(GlobDir(rel)) # "readdir"
         THEN "files"
         ELSE "none"

\* the walker ignoring the ignore map
WalkerNoIgnore(path) ==
    IF FaultAt(path) = "lstat" THEN "panic"
    ELSE LET g == Glob(path, Rel(path))
         IN  IF g = "error" THEN "exit"
             ELSE IF g = "none" THEN "nil" ELSE "dispatch"

\* the walker looking up the last element of rel in the ignore map
WalkerBaseName(path) ==
    IF FaultAt(path) = "lstat" THEN "panic"
    ELSE IF Rel(path) # << >> /\ Rel(path)[Len(Rel(path))] \in ignores
         THEN "skipdir"
    ELSE LET g == Glob(path, Rel(path))
         IN  IF g = "error" THEN "exit"
             ELSE IF g = "none" THEN "nil" ELSE "dispatch"

\* the walker callback on a directory: "panic" (info is nil), "skipdir",
\* "exit" (os.Exit(1) on a Glob error), "nil" (no test files) or "dispatch"
Walker(path) ==
    IF FaultAt(path) = "lstat" THEN "panic"
    ELSE IF PathString(Rel(path)) \in ignores THEN "skipdir"
    ELSE LET g == Glob(path, Rel(path))
         IN  IF g = "error" THEN "exit"
             ELSE IF g = "none" THEN "nil" ELSE "dispatch"

\* what Walk visits after the callback returned nil for path: its children,
\* unless it could not list them
Descend(path) ==
    IF FaultAt(path) = "readdir" THEN Tail(todo)
    ELSE Children(path) \o Tail(todo)

\* the stream the external command writes its k-th line to: two lines to
\* its standard output, then one to its standard error, and so on
StreamOf(k) == IF k % 3 = 0 THEN "stderr" ELSE "stdout"

Streams == {"stdout", "stderr"}
NoneRelayed == [s \in Streams |-> << >>]

\* the goroutine of wg.Wait(); close(out) started ahead of the walk
StartCloserFirst ==
    /\ todo = <<projectPath>>
    /\ visited = << >>
    /\ walkErrs = {}
    /\ pruned = {}
    /\ workers = << >>
    /\ execs = EmptyBag
    /\ wg = 0
    /\ closer = "wait"
    /\ closed = FALSE
    /\ buff = << >>
    /\ received = 0
    /\ order = << >>
    /\ mainpc = "walk"
    /\ report = << >>
    /\ writes = 0
    /\ exit = "running"

\* testFiles is entered: nothing walked, nothing dispatched, out open
Start ==
    /\ todo = <<projectPath>>
    /\ visited = << >>
    /\ walkErrs = {}
    /\ pruned = {}
    /\ workers = << >>
    /\ execs = EmptyBag
    /\ wg = 0
    /\ closer = "off"
    /\ closed = FALSE
    /\ buff = << >>
    /\ received = 0
    /\ order = << >>
    /\ mainpc = "walk"
    /\ report = << >>
    /\ writes = 0
    /\ exit = "running"

\* the defaults of -covermode and -ignore
DefaultMode == <<"c","o","u","n","t">>
DefaultIgnore == <<".git", "vendor">>

\* the runs differ from the default run in one respect: the runs of every
\* cover mode have the default ignore flag, no fault and quiet commands,
\* those of every ignore flag and fault have the default mode and quiet
\* commands (both on every tree), and those whose commands write lines have
\* the default flags, no fault and test files in a and in a/vendor
Init ==
    /\ \/ /\ coverFlag \in Modes
          /\ ignores = ParseIgnores(DefaultIgnore)
          /\ testDirs \in { S \in SUBSET AbsDirs : Cardinality(S) <= MaxCand }
          /\ fault = NoFault
          /\ outLines = 0
       \/ /\ coverFlag = DefaultMode
          /\ \E f \in IgnoreFlags : ignores = ParseIgnores(f)
          /\ testDirs \in { S \in SUBSET AbsDirs : Cardinality(S) <= MaxCand }
          /\ fault \in Faults
          /\ outLines = 0
       \/ /\ coverFlag = DefaultMode
          /\ ignores = ParseIgnores(DefaultIgnore)
          /\ testDirs = { projectPath \o <<"a">>, projectPath \o <<"a", "vendor">> }
          /\ fault = NoFault
          /\ outLines \in 1..MaxOut
    /\ Start

\* ------------------------------------------------------- filepath.Walk
Running == exit = "running"

Visit(path) ==
    /\ visited' = Append(visited, path)
    /\ walkErrs' = IF FaultAt(path) \in {"readdir", "lstat"}
                   THEN walkErrs \cup {path} ELSE walkErrs

\* the callback dereferences the nil FileInfo of an entry lstat failed on
WalkPanic ==
    /\ Running /\ mainpc = "walk" /\ todo # << >>
    /\ Walker(Head(todo)) = "panic"
    /\ Visit(Head(todo))
    /\ exit' = "panic"
    /\ UNCHANGED << config, todo, pruned, workers, execs, wg, closer, closed, merge, mainpc >>

\* return filepath.SkipDir: the subtree is not walked
WalkSkipDir ==
    /\ Running /\ mainpc = "walk" /\ todo # << >>
    /\ Walker(Head(todo)) = "skipdir"
    /\ Visit(Head(todo))
    /\ pruned' = pruned \cup {Head(todo)}
    /\ todo' = Tail(todo)
    /\ UNCHANGED << config, workers, execs, wg, closer, closed, merge, mainpc, exit >>

\* Glob failed: "Error checking for test files", os.Exit(1)
WalkGlobError ==
    /\ Running /\ mainpc = "walk" /\ todo # << >>
    /\ Walker(Head(todo)) = "exit"
    /\ Visit(Head(todo))
    /\ exit' = "fatal"
    /\ UNCHANGED << config, todo, pruned, workers, execs, wg, closer, closed, merge, mainpc >>

\* no test files: return nil, the walk goes on below
WalkNoTests ==
    /\ Running /\ mainpc = "walk" /\ todo # << >>
    /\ Walker(Head(todo)) = "nil"
    /\ Visit(Head(todo))
    /\ todo' = Descend(Head(todo))
    /\ UNCHANGED << config, pruned, workers, execs, wg, closer, closed, merge, mainpc, exit >>

\* the worker is started twice for the directory
WalkDispatchTwice ==
    /\ Running /\ mainpc = "walk" /\ todo # << >>
    /\ Walker(Head(todo)) = "dispatch"
    /\ Visit(Head(todo))
    /\ wg' = wg + 2
    /\ LET w == [path |-> Head(todo), rel |-> Rel(Head(todo)),
                 pc |-> "stdout", b |-> << >>,
                 emitted |-> 0, relayed |-> NoneRelayed]
       IN  workers' = workers \o <<w, w>>
    /\ todo' = Descend(Head(todo))
    /\ UNCHANGED << config, pruned, execs, closer, closed, merge, mainpc, exit >>

\* wg.Add(1); go processDIR(logger, wg, path, rel, out); return nil
WalkDispatch ==
    /\ Running /\ mainpc = "walk" /\ todo # << >>
    /\ Walker(Head(todo)) = "dispatch"
    /\ Visit(Head(todo))
    /\ wg' = wg + 1
    /\ workers' = Append(workers, [path |-> Head(todo), rel |-> Rel(Head(todo)),
                                   pc |-> "stdout", b |-> << >>,
                                   emitted |-> 0, relayed |-> NoneRelayed])
    /\ todo' = Descend(Head(todo))
    /\ UNCHANGED << config, pruned, execs, closer, closed, merge, mainpc, exit >>

\* Walk returned nil: go func() { wg.Wait(); close(out) }(), then the loop
WalkReturns ==
    /\ Running /\ mainpc = "walk" /\ todo = << >>
    /\ closer' = "wait"
    /\ mainpc' = "drain"
    /\ UNCHANGED << config, walk, workers, execs, wg, closed, merge, exit >>

\* ----------------------------------------------------------- processDIR
At(i, pc) == i \in 1..Len(workers) /\ workers[i].pc = pc

Goto(i, pc) == workers' = [workers EXCEPT ![i].pc = pc]

WorkerStep(i, from, to) ==
    /\ Running /\ At(i, from)
    /\ Goto(i, to)
    /\ UNCHANGED << config, walk, execs, wg, closer, closed, merge, mainpc, exit >>

\* cmd.StdoutPipe() succeeded; go scanOutput(stdout, logger.Print)
StdoutPipe(i) == WorkerStep(i, "stdout", "stderr")

\* logger.Fatal("Unable to get process stdout")
StdoutPipeFails(i) == WorkerStep(i, "stdout", "fatal")

\* cmd.StderrPipe() succeeded; go scanOutput(stderr, logger.Print)
StderrPipe(i) == WorkerStep(i, "stderr", "run")

\* logger.Fatal("Unable to get process stderr")
StderrPipeFails(i) == WorkerStep(i, "stderr", "fatal")

\* the command is started only when no other one is running
RunStartsThrottled(i) ==
    /\ Running /\ At(i, "run")
    /\ \A j \in DOMAIN workers : workers[j].pc # "wait"
    /\ Goto(i, "wait")
    /\ execs' = execs (+) SetToBag({workers[i].path})
    /\ UNCHANGED << config, walk, wg, closer, closed, merge, mainpc, exit >>

\* cmd.Run() started `go test` for the directory
RunStarts(i) ==
    /\ Running /\ At(i, "run")
    /\ Goto(i, "wait")
    /\ execs' = execs (+) SetToBag({workers[i].path})
    /\ UNCHANGED << config, walk, wg, closer, closed, merge, mainpc, exit >>

\* cmd.Run() could not start the command: logger.Fatal("ERROR:", err)
RunStartFails(i) == WorkerStep(i, "run", "fatal")

\* the running command writes its next line to one of its two pipes
ProcWrites(i) ==
    /\ Running /\ At(i, "wait")
    /\ workers[i].emitted < outLines
    /\ workers' = [workers EXCEPT ![i].emitted = @ + 1]
    /\ UNCHANGED << config, walk, execs, wg, closer, closed, merge, mainpc, exit >>

\* the lines written to stream s of worker i so far, in the order written
EmittedOn(i, s) ==
    SelectSeq([k \in 1..workers[i].emitted |-> k], LAMBDA k : StreamOf(k) = s)

\* the lines in the pipe of stream s that scanOutput has not read yet
Pending(i, s) ==
    SubSeq(EmittedOn(i, s), Len(workers[i].relayed[s]) + 1, Len(EmittedOn(i, s)))

\* scanOutput handing the line written last to the logger
ScanRelaysNewest(i, s) ==
    /\ Running /\ At(i, "wait")
    /\ Pending(i, s) # << >>
    /\ LET l == Pending(i, s)[Len(Pending(i, s))]
       IN  workers' = [workers EXCEPT ![i].relayed[s] = Append(@, l)]
    /\ UNCHANGED << config, walk, execs, wg, closer, closed, merge, mainpc, exit >>

\* scanOutput of stream s: bs.Scan() got the next line from the pipe, which
\* cmd.Run() has not closed yet, and fn(bs.Text()) hands it to the logger
ScanRelays(i, s) ==
    /\ Running /\ At(i, "wait")
    /\ Pending(i, s) # << >>
    /\ workers' = [workers EXCEPT ![i].relayed[s] = Append(@, Head(Pending(i, s)))]
    /\ UNCHANGED << config, walk, execs, wg, closer, closed, merge, mainpc, exit >>

\* the external command wrote its lines and exited with status zero:
\* cmd.Run() returns from Wait, which has closed both pipes, whatever the
\* two scanOutput goroutines had read of them
RunExitsZero(i) ==
    /\ At(i, "wait") /\ workers[i].emitted = outLines
    /\ WorkerStep(i, "wait", "read")

\* the external command exited nonzero: logger.Fatal("ERROR:", err)
RunExitsNonzero(i) ==
    /\ At(i, "wait") /\ workers[i].emitted = outLines
    /\ WorkerStep(i, "wait", "fatal")

\* b, err := ioutil.ReadFile(relPath + SEPARATOR + "profile.coverprofile")
\* (for the empty relPath the file is looked up in the filesystem root)
ReadFile(i) ==
    /\ Running /\ At(i, "read")
    /\ \E art \in ArtifactPool :
          workers' = [workers EXCEPT ![i].pc = "send", ![i].b = art]
    /\ UNCHANGED << config, walk, execs, wg, closer, closed, merge, mainpc, exit >>

\* the profile cannot be read: logger.Fatal("ERROR:", err)
ReadFileFails(i) == WorkerStep(i, "read", "fatal")

\* the failure is logged and processDIR returns
FatalReturns(i) == WorkerStep(i, "fatal", "ret")

\* logger.Fatal: the message is out, os.Exit(1) ends the process
FatalExits(i) ==
    /\ Running /\ At(i, "fatal")
    /\ exit' = "fatal"
    /\ UNCHANGED << config, walk, workers, execs, wg, closer, closed, merge, mainpc >>

\* the loop starts to receive only once every worker has called Done
ReceivingAfterWait == mainpc = "drain" /\ ~closed /\ wg = 0

\* the range loop of testFiles is at its receive
Receiving == mainpc = "drain" /\ ~closed

\* out made with room for every send
SendReadyBuffered == ~closed

\* out is unbuffered: a send goes through when the receiver is at its receive
SendReady == Receiving

\* the received artifact put in front of the buffer
DeliverPrepend(i) ==
    /\ Running /\ At(i, "send")
    /\ SendReady
    /\ Goto(i, "ret")
    /\ buff' = workers[i].b \o buff
    /\ received' = received + 1
    /\ order' = Append(order, i)
    /\ UNCHANGED << config, walk, execs, wg, closer, closed, report, writes, mainpc, exit >>

\* out <- b, met by `cover := range out` and buff.Write(cover)
Deliver(i) ==
    /\ Running /\ At(i, "send")
    /\ SendReady
    /\ Goto(i, "ret")
    /\ buff' = buff \o workers[i].b
    /\ received' = received + 1
    /\ order' = Append(order, i)
    /\ UNCHANGED << config, walk, execs, wg, closer, closed, report, writes, mainpc, exit >>

\* processDIR returns: the deferred wg.Done()
WorkerDone(i) ==
    /\ Running /\ At(i, "ret")
    /\ Goto(i, "done")
    /\ wg' = wg - 1
    /\ UNCHANGED << config, walk, execs, closer, closed, merge, mainpc, exit >>

\* ------------------------------------------------ wg.Wait(); close(out)
\* Wait returning at once
WaitUnblockedAlways(counter) == TRUE

\* Wait returning only after some worker was dispatched
WaitNeedsWorker(counter) == counter = 0 /\ workers # << >>

\* wg.Wait() returns when the counter is zero
WaitUnblocked(counter) == counter = 0

WaitReturns ==
    /\ Running /\ closer = "wait"
    /\ WaitUnblocked(wg)
    /\ closer' = "close"
    /\ UNCHANGED << config, walk, workers, execs, wg, closed, merge, mainpc, exit >>

CloseOut ==
    /\ Running /\ closer = "close"
    /\ closed' = TRUE
    /\ closer' = "done"
    /\ UNCHANGED << config, walk, workers, execs, wg, merge, mainpc, exit >>

\* ------------------------------------------------- testFiles, the merge
\* out is closed and empty: the range loop ends
LoopEnds ==
    /\ Running /\ mainpc = "drain" /\ closed
    /\ mainpc' = "write"
    /\ UNCHANGED << config, walk, workers, execs, wg, closer, closed, merge, exit >>

\* ioutil.WriteFile(outFilename, []byte(final), 0644) and the return to main
WriteFile ==
    /\ Running /\ mainpc = "write"
    /\ report' = FinalReport(buff, coverFlag)
    /\ writes' = writes + 1
    /\ mainpc' = "done"
    /\ exit' = "ok"
    /\ UNCHANGED << config, walk, workers, execs, wg, closer, closed, buff, received, order >>

\* logger.Fatal("ERROR Writing ...", err)
WriteFileFails ==
    /\ Running /\ mainpc = "write"
    /\ exit' = "fatal"
    /\ UNCHANGED << config, walk, workers, execs, wg, closer, closed, merge, mainpc >>

Next ==
    \/ WalkPanic
    \/ WalkSkipDir
    \/ WalkGlobError
    \/ WalkNoTests
    \/ WalkDispatch
    \/ WalkReturns
    \/ \E i \in DOMAIN workers : StdoutPipe(i)
    \/ \E i \in DOMAIN workers : StdoutPipeFails(i)
    \/ \E i \in DOMAIN workers : StderrPipe(i)
    \/ \E i \in DOMAIN workers : StderrPipeFails(i)
    \/ \E i \in DOMAIN workers : RunStarts(i)
    \/ \E i \in DOMAIN workers : RunStartFails(i)
    \/ \E i \in DOMAIN workers : ProcWrites(i)
    \/ \E i \in DOMAIN workers : \E s \in Streams : ScanRelays(i, s)
    \/ \E i \in DOMAIN workers : RunExitsZero(i)
    \/ \E i \in DOMAIN workers : RunExitsNonzero(i)
    \/ \E i \in DOMAIN workers : ReadFile(i)
    \/ \E i \in DOMAIN workers : ReadFileFails(i)
    \/ \E i \in DOMAIN workers : FatalExits(i)
    \/ \E i \in DOMAIN workers : Deliver(i)
    \/ \E i \in DOMAIN workers : WorkerDone(i)
    \/ WaitReturns
    \/ CloseOut
    \/ LoopEnds
    \/ WriteFileFails
    \/ WriteFile

Spec == Init /\ [][Next]_vars

\* every goroutine that can take a step is scheduled sooner or later
FairSpec == Spec /\ WF_vars(Next)

\* ------------------------------------------------ reading the properties
\* the lines of a text, without their line ends; text after the last line
\* end is a line of its own
RECURSIVE SplitLines(_, _, _)
SplitLines(s, i, cur) ==
    IF i > Len(s) THEN (IF cur = << >> THEN << >> ELSE <<cur>>)
    ELSE IF s[i] = NL THEN <<cur>> \o SplitLines(s, i + 1, << >>)
    ELSE SplitLines(s, i + 1, Append(cur, s[i]))

Lines(s) == SplitLines(s, 1, << >>)

\* a mode-declaration line: "mode: " and a word of lower-case letters
IsModeLine(l) ==
    /\ Len(l) >= 7
    /\ SubSeq(l, 1, 6) = ModePrefix
    /\ \A j \in 7..Len(l) : l[j] \in Lower

ModeLinesOf(s) == SelectSeq(Lines(s), IsModeLine)
DataLinesOf(s) == SelectSeq(Lines(s), LAMBDA l : ~IsModeLine(l))

RECURSIVE SeqToBag(_)
SeqToBag(q) ==
    IF q = << >> THEN EmptyBag ELSE SetToBag({Head(q)}) (+) SeqToBag(Tail(q))

\* the data lines of the artifacts of the first n workers, as a bag
RECURSIVE DeliveredLines(_)
DeliveredLines(n) ==
    IF n = 0 THEN EmptyBag
    ELSE DeliveredLines(n - 1) (+) SeqToBag(DataLinesOf(workers[n].b))

Range(q) == { q[i] : i \in DOMAIN q }
Written == writes >= 1
AnyFatal == \E i \in DOMAIN workers : workers[i].pc = "fatal"
Delivered(i) == workers[i].pc \in {"ret", "done"}
DispatchedFor(path) == \E i \in DOMAIN workers : workers[i].path = path
IgnoredRel(d) == PathString(d) \in ignores
PrunedAbove(d) == \E k \in 0..(Len(d) - 1) : IgnoredRel(SubSeq(d, 1, k))
Abs(d) == projectPath \o d
Position(q, x) == CHOOSE i \in DOMAIN q : q[i] = x

\* C1: once a worker has hit a fatal condition (a pipe could not be got, the
\* command failed, the profile could not be read) it never goes on, the
\* merged report is not written and the process cannot end with success,
\* whatever the other workers have delivered.
C1_FatalWorkerNoReport ==
    /\ [](AnyFatal => (writes = 0 /\ exit # "ok" /\ mainpc # "done"))
    /\ [][\A i \in DOMAIN workers :
             workers[i].pc = "fatal" =>
                 /\ i \in DOMAIN workers'
                 /\ workers'[i].pc = "fatal"
                 /\ writes' = 0]_vars

\* a worker failed after another one had delivered, and the process exited
C1_Witness ==
    /\ exit = "fatal"
    /\ \E i, j \in DOMAIN workers :
          workers[i].pc = "fatal" /\ Delivered(j)

\* C2: the written report starts with "mode: <coverFlag>" and holds exactly
\* one mode-declaration line, whatever modes the delivered artifacts declare.
C2_OneHeader ==
    Written =>
        /\ Len(report) >= Len(Header(coverFlag))
        /\ SubSeq(report, 1, Len(Header(coverFlag))) = Header(coverFlag)
        /\ Len(ModeLinesOf(report)) = 1

\* two artifacts of different modes, neither the configured one, were merged
C2_Witness ==
    /\ Written
    /\ \E i, j \in DOMAIN workers :
          /\ Head(Lines(workers[i].b)) # Head(Lines(workers[j].b))
          /\ Head(Lines(workers[i].b)) # Head(Lines(Header(coverFlag)))
          /\ Head(Lines(workers[j].b)) # Head(Lines(Header(coverFlag)))

\* C3: the data lines of the written report are, as a bag, the data lines
\* of the delivered artifacts: none dropped, duplicated, changed or joined.
C3_DataLinesRoundTrip ==
    Written =>
        SeqToBag(DataLinesOf(report)) = DeliveredLines(Len(workers))

\* two artifacts that share a data line were merged, one of them holding
\* the line whose file name starts with "mode: "
C3_Witness ==
    /\ Written
    /\ \E i, j \in DOMAIN workers :
          /\ i # j
          /\ Len(DataLinesOf(workers[i].b)) >= 2
          /\ Len(DataLinesOf(workers[j].b)) >= 1

\* C4: no worker is dispatched for a directory that is ignored or lies
\* below an ignored directory, and the walker is never called for a
\* directory below an ignored one.
C4_IgnoredNeverDispatched ==
    \A d \in Tree :
        /\ (IgnoredRel(d) \/ PrunedAbove(d)) => ~DispatchedFor(Abs(d))
        /\ PrunedAbove(d) => Abs(d) \notin Range(visited)

\* the walk is over, and a directory with test files lies below an ignored
\* one while another directory was dispatched
C4_Witness ==
    /\ mainpc # "walk"
    /\ workers # << >>
    /\ \E d \in Tree : PrunedAbove(d) /\ Abs(d) \in testDirs

\* C5 as claimed: in a run without filesystem faults, every directory the
\* walker was called for and did not prune, the project root included, is
\* dispatched if and only if it holds a test file.
C5_DispatchedIffTestFiles ==
    fault = NoFault =>
        \A d \in Tree :
            (Abs(d) \in Range(visited) /\ ~IgnoredRel(d)) =>
                (DispatchedFor(Abs(d)) <=> Abs(d) \in testDirs)

\* C6: no directory has two workers, every directory the walker selected
\* has its worker, an external process is started only by a worker, once,
\* and no more artifacts are delivered than workers were dispatched.
C6_OneWorkerOneProcess ==
    /\ \A i, j \in DOMAIN workers :
          workers[i].path = workers[j].path => i = j
    /\ \A p \in Range(visited) :
          Walker(p) = "dispatch" => DispatchedFor(p)
    /\ \A p \in BagToSet(execs) : DispatchedFor(p) /\ CopiesIn(p, execs) = 1
    /\ \A i \in DOMAIN workers :
          workers[i].pc \in {"wait", "read", "send", "ret", "done"}
              => CopiesIn(workers[i].path, execs) = 1
    /\ received <= Len(workers)
    /\ received = Cardinality({ i \in DOMAIN workers : Delivered(i) })

\* the run ended well with two directories dispatched and tested
C6_Witness ==
    /\ exit = "ok"
    /\ Len(workers) >= 2
    /\ BagCardinality(execs) = Len(workers)

\* C7 as claimed: once the traversal has reported an error to the callback
\* (for a directory that is not ignored), no directory visited later is
\* dispatched and no report is written.
C7_WalkErrorAborts ==
    \A e \in walkErrs :
        ~IgnoredRel(Rel(e)) =>
            /\ writes = 0
            /\ \A i \in DOMAIN workers :
                  Position(visited, workers[i].path) <= Position(visited, e)

\* C8: the report is written at most once, by the main line, and then
\* every dispatched worker has delivered and called Done.
C8_WriteAfterAllDone ==
    /\ writes <= 1
    /\ Written =>
          /\ mainpc = "done"
          /\ received = Len(workers)
          /\ \A i \in DOMAIN workers : workers[i].pc = "done"
          /\ wg = 0
          /\ closed

\* the report was written after two workers had delivered
C8_Witness ==
    /\ writes = 1
    /\ Len(workers) >= 2
    /\ received = 2

\* the steps left to the closing goroutine and to the main line after the walk
Finish == WaitReturns \/ CloseOut \/ LoopEnds \/ WriteFile

\* C9: when the walk has dispatched no worker the run never blocks (the
\* wait returns, out is closed, the loop ends, the write is reached), and
\* the report written is the one line "mode: <coverFlag>".
C9_EmptyRunWritesHeader ==
    /\ (Running /\ mainpc # "walk" /\ workers = << >>) => ENABLED Finish
    /\ (Written /\ workers = << >>) => (closed /\ report = Header(coverFlag))

\* a tree with test files only where they are not looked for: nothing was
\* dispatched and the header-only report was written
C9_Witness ==
    /\ Written
    /\ workers = << >>
    /\ testDirs # {}
    /\ report = Header(coverFlag)

PcRank(pc) ==
    CASE pc = "stdout" -> 8 [] pc = "stderr" -> 7 [] pc = "run" -> 6
      [] pc = "wait" -> 5 [] pc = "read" -> 4 [] pc = "send" -> 3
      [] pc = "ret" -> 2 [] pc = "fatal" -> 1 [] pc = "done" -> 0

\* the writes and reads the command and scanners of a worker have left
OutputLeft(w) ==
    IF w.pc \in {"stdout", "stderr", "run", "wait"}
    THEN 2 * outLines - w.emitted
            - Len(w.relayed["stdout"]) - Len(w.relayed["stderr"])
    ELSE 0

RECURSIVE WorkersRank(_)
WorkersRank(n) ==
    IF n = 0 THEN 0
    ELSE WorkersRank(n - 1) + PcRank(workers[n].pc) + OutputLeft(workers[n])

\* a bound on the steps a run has left
StepsLeft ==
    (10 + 2 * outLines) * (Cardinality(Tree) - Len(visited))
    + WorkersRank(Len(workers))
    + (CASE mainpc = "walk" -> 3 [] mainpc = "drain" -> 2
         [] mainpc = "write" -> 1 [] mainpc = "done" -> 0)
    + (CASE closer = "off" -> 3 [] closer = "wait" -> 2
         [] closer = "close" -> 1 [] closer = "done" -> 0)
    + (IF Running THEN 1 ELSE 0)

\* C10: no run blocks or goes on for ever: while the process runs some
\* goroutine can take a step, every step brings the end nearer, and a
\* process that ended without a fatal condition has written the report
\* after every worker delivered and returned and out was closed.  Under
\* FairSpec every run therefore ends, with the report written unless a
\* fatal condition ended it.
C10_NoDeadlock ==
    /\ [](Running => ENABLED Next)
    /\ [][StepsLeft' < StepsLeft /\ StepsLeft' >= 0]_vars
    /\ [](~Running =>
            \/ exit \in {"fatal", "panic"}
            \/ /\ exit = "ok" /\ Written /\ closed /\ mainpc = "done"
               /\ \A i \in DOMAIN workers : workers[i].pc = "done")

\* a run of at least two workers ended with the report written
C10_Witness ==
    /\ exit = "ok"
    /\ Len(workers) >= 2
    /\ closer = "done"

AllDone == \A i \in DOMAIN workers : workers[i].pc = "done"
DoneCount == Cardinality({ i \in DOMAIN workers : workers[i].pc = "done" })

\* C11 as claimed: no artifact is received from out while a dispatched
\* worker has yet to call Done.
C11_DrainAfterAllDone ==
    [][received' # received => AllDone]_vars

\* C11 as amended: the loop over out ends only after every dispatched
\* worker has called Done (counter zero, deliveries = completions =
\* dispatches), while every artifact is received before its own worker
\* calls Done.
C11_DrainEndsAfterAllDone ==
    /\ mainpc \in {"write", "done"} =>
          (AllDone /\ wg = 0 /\ received = Len(workers))
    /\ DoneCount <= received
    /\ \A i \in DOMAIN workers : workers[i].pc = "done" => mainpc # "walk"

\* an artifact was received while another worker had not even started its
\* command
C11_Witness ==
    /\ mainpc = "drain"
    /\ received = 1
    /\ DoneCount = 0
    /\ \E i \in DOMAIN workers : workers[i].pc = "stdout"

\* C12 as claimed: a worker that has read its artifact can complete its
\* send at once, wherever the main line is.
C12_SendNeverBlocks ==
    \A i \in DOMAIN workers :
        (Running /\ workers[i].pc = "send") => ENABLED Deliver(i)

\* C12 as amended: a worker that has read its artifact cannot complete its
\* send while the main line is still in the walk (out holds nothing), and
\* can complete it at once from the moment the main line is at the loop.
C12_SendWaitsForLoop ==
    \A i \in DOMAIN workers :
        (Running /\ workers[i].pc = "send") =>
            /\ mainpc = "walk" => ~ENABLED Deliver(i)
            /\ mainpc # "walk" => ENABLED Deliver(i)

\* a worker is at its send while the walk still goes on
C12_Witness ==
    /\ Running
    /\ mainpc = "walk"
    /\ todo # << >>
    /\ \E i \in DOMAIN workers : workers[i].pc = "send"

\* C13: the Adds all come before the wait starts, the counter is the
\* number of workers that have not called Done and is never negative, and
\* out is closed only when every dispatched worker has sent and returned,
\* so no worker is at or before its send with out closed.
C13_CloseAfterAllSends ==
    /\ wg >= 0
    /\ wg = Len(workers) - DoneCount
    /\ closer # "off" => (mainpc # "walk" /\ todo = << >>)
    /\ closer \in {"close", "done"} => (AllDone /\ received = Len(workers))
    /\ closed => (AllDone /\ closer = "done")

\* out was closed after two workers had sent
C13_Witness ==
    /\ closed
    /\ Len(workers) >= 2
    /\ mainpc = "drain"

Walking ==
    WalkPanic \/ WalkSkipDir \/ WalkGlobError \/ WalkNoTests \/ WalkDispatch
        \/ WalkReturns

\* C14: the walk never waits for a worker, and a worker never waits for
\* another one to start its command: whatever the other workers do, the
\* next step of the walk and of each worker up to the start of its command
\* can be taken, so all the commands can be running together.
C14_DispatchNotThrottled ==
    /\ (Running /\ mainpc = "walk") => ENABLED Walking
    /\ \A i \in DOMAIN workers :
          /\ (Running /\ workers[i].pc = "stdout") => ENABLED StdoutPipe(i)
          /\ (Running /\ workers[i].pc = "stderr") => ENABLED StderrPipe(i)
          /\ (Running /\ workers[i].pc = "run") => ENABLED RunStarts(i)

\* every directory with test files was dispatched and all the commands are
\* running at the same time
C14_Witness ==
    /\ mainpc # "walk"
    /\ Len(workers) = MaxCand
    /\ Cardinality(testDirs) = MaxCand
    /\ BagCardinality(execs) = MaxCand
    /\ \A i \in DOMAIN workers : workers[i].pc = "wait"

\* the data lines of the first n artifacts received, artifact after
\* artifact in the order of receipt, each one's lines in their own order
RECURSIVE ReceivedData(_)
ReceivedData(n) ==
    IF n = 0 THEN << >>
    ELSE ReceivedData(n - 1) \o DataLinesOf(workers[order[n]].b)

\* C15: every worker's artifact is received once and whole: the data lines
\* of the buffer the loop leaves, and of the written report, are the data
\* lines of the received artifacts, one artifact after the other in the order of
\* receipt, each artifact's lines together and in their own order.
C15_ArtifactsContiguous ==
    /\ Len(order) = received
    /\ \A k \in DOMAIN order : order[k] \in DOMAIN workers /\ Delivered(order[k])
    /\ \A k, h \in DOMAIN order : order[k] = order[h] => k = h
    /\ mainpc = "write" =>
          /\ Len(order) = Len(workers)
          /\ DataLinesOf(buff) = ReceivedData(Len(order))
    /\ Written =>
          /\ Len(order) = Len(workers)
          /\ DataLinesOf(report) = ReceivedData(Len(order))

\* the report was written from two different artifacts, both with data
\* lines, received against the order of dispatch
C15_Witness ==
    /\ Written
    /\ order = <<2, 1>>
    /\ workers[1].b # workers[2].b
    /\ DataLinesOf(workers[1].b) # << >>
    /\ DataLinesOf(workers[2].b) # << >>

\* C16: a directory the walker was called with (and got a FileInfo for) is
\* pruned exactly when its whole project-relative path is equal to a token
\* of the ignore map; one whose last element alone is a token is walked,
\* and a pruned directory's subtree is never visited.
C16_PrunedIffExactMatch ==
    /\ \A d \in Tree :
          (Abs(d) \in Range(visited) /\ FaultAt(Abs(d)) # "lstat") =>
              /\ Abs(d) \in pruned <=> (\E tok \in ignores : tok = PathString(d))
              /\ (d # << >> /\ d[Len(d)] \in ignores /\ PathString(d) \notin ignores)
                     => Abs(d) \notin pruned
    /\ pruned \subseteq Range(visited)
    /\ \A p \in pruned : ~DispatchedFor(p)

\* with the token "vendor", vendor was pruned and a/vendor was walked and
\* dispatched
C16_Witness ==
    /\ "vendor" \in ignores
    /\ Abs(<<"vendor">>) \in pruned
    /\ Abs(<<"a", "vendor">>) \in Range(visited)
    /\ Abs(<<"a", "vendor">>) \notin pruned
    /\ DispatchedFor(Abs(<<"a", "vendor">>))

\* every line worker i's command has written was handed to the logger
AllRelayed(i) ==
    \A s \in Streams : workers[i].relayed[s] = EmittedOn(i, s)

PastWait(i) == workers[i].pc \notin {"stdout", "stderr", "run", "wait"}

\* C17 as claimed: once a worker's cmd.Run() has returned (and so when it
\* delivers and returns), and once the run has ended, every line the
\* worker's command wrote has been handed to the logger.
C17_NoLineLost ==
    \A i \in DOMAIN workers : (PastWait(i) \/ ~Running) => AllRelayed(i)

\* C18: what the logger got from one stream of one worker is lines that
\* the command wrote to that stream, none twice and each one after the
\* lines written before it that the logger got too.
C18_RelayKeepsLineOrder ==
    \A i \in DOMAIN workers : \A s \in Streams :
        LET r == workers[i].relayed[s]
        IN  /\ \A k \in DOMAIN r :
                  r[k] \in 1..workers[i].emitted /\ StreamOf(r[k]) = s
            /\ \A k, h \in DOMAIN r : k < h => r[k] < r[h]

\* the logger has both standard output lines of one worker in order, and
\* from another worker the standard error line but neither of the standard
\* output lines written before it
C18_Witness ==
    \E i, j \in DOMAIN workers :
        /\ i # j
        /\ workers[i].relayed["stdout"] = <<1, 2>>
        /\ workers[j].emitted = 3
        /\ workers[j].relayed["stderr"] = <<3>>
        /\ workers[j].relayed["stdout"] = << >>

====
